---- MODULE Spec2Model ----
(***************************************************************************)
(* Request-governance layer of the question-answering widget:              *)
(*   - ServerRateLimiter  (map-backed fixed-window counter, per IP)        *)
(*   - ClientRateLimiter  (localStorage-backed timestamp array)            *)
(*   - ApiCache           (TTL cache with lazy expiry)                     *)
(*   - POST /api/openai/responses (question endpoint pipeline)             *)
(*   - retryRequest       (bounded retry with exponential backoff)         *)
(*   - /api/proxy/[...path] (handleProxyRequest and its responseCache)     *)
(* Time is the value Date.now() returns; it is read by every operation     *)
(* and advanced by Tick.                                                   *)
(***************************************************************************)
EXTENDS Integers, Sequences, FiniteSets, TLC

\* ------------------------------------------------------------------------
\* Configuration constants.  '@/app/config/constants' exports MAX_REQUESTS
\* and STORAGE_WINDOW_MS; the limiters import them.  The model uses small
\* values (one time unit = one tick of Date.now()).
MAX_REQUESTS == 2
STORAGE_WINDOW_MS == 3

\* process.env.CACHE_DURATION || '300000': the time a proxied response stays
\* servable from responseCache.
CACHE_DURATION == 2

\* Bounds of the model.
MaxTextLen == 2
MaxLimit == 2
MaxHits == 2
MaxRepeat == 2
WelcomeMaxTime == 4
NumCalls == 2
MaxHookRetries == 2
HookCacheTTL == 2
MaxTime == 8
\* Question-endpoint requests suspended at an await at once, and the time their runs cover.
NumReq == 2
EpMaxTime == 4
\* The time the runs of the cache cover.
CacheMaxTime == 4
\* The largest maxRetries argument of retryRequest, and the time its runs cover.
MaxRetries == 3
RetryMaxTime == 6
\* Proxy requests suspended at their upstream call at once, and the time their runs cover.
NumProxy == 1
ProxyMaxTime == 2

\* Identity keys seen by the server (x-forwarded-for / x-real-ip / 'unknown').
IPs == {"10.0.0.1", "unknown"}

\* Cache keys, cached values (JsNull is the JavaScript value null, which get
\* also returns for "absent") and the ttl arguments of set.
CacheKeys == {"users:", "products:"}
JsNull == "null"
Values == {"payload", JsNull}
TTLs == {0, 2}

\* Proxy requests: the exported handlers, the path after /api/proxy/ (PROXY_CONFIGS
\* has an entry for "users", none for "orders") and the query string.
Methods == {"GET", "POST", "PUT", "DELETE", "PATCH"}
Paths == {"users", "orders"}
Searches == {"", "?page=2"}
Targets == {<<"users", "">>, <<"users", "?page=2">>, <<"orders", "">>}

\* The delay arguments of retryRequest.
Delays == {1, 2}

\* The address under which the browser holding the localStorage item reaches
\* the server.
ClientIp == "10.0.0.1"

VARIABLES
  now,       \* Date.now()
  store,     \* ServerRateLimiter.store : Map<string, RateLimitEntry>
  storage,   \* localStorage item 'translation_requests'
  ret,       \* what the last ServerRateLimiter operation returned
  cRet,      \* what the last ClientRateLimiter operation returned
  shadow,    \* the server store as it would be had cleanup never run
  shadowRet, \* what the last server operation would have returned on shadow
  sFirst,    \* per key: time of the checkLimit call that found no entry
  sCalls,    \* per key: checkLimit calls made since that call
  cFirst,    \* time of the client checkLimit call that found no timestamps
  cCalls,    \* client checkLimit calls made since that call
  pc,        \* per request slot of the question endpoint: the await it is at
  reqIp,     \* per request slot: the caller identity resolved from the headers
  reqTrail,  \* per request slot: the gates the request has gone through, in
             \* order, and what they saw (its text, the credential, the verdict)
  resp,      \* the response the question endpoint sent last
  admitted,  \* per key: the window last admitted into, and how many requests
             \* checkLimit has admitted into it
  cache,     \* ApiCache.cache : Map<string, {data, timestamp, ttl}>
  cacheRet,  \* what the last ApiCache operation returned
  lastSet,   \* per cache key: the latest set(k, v, ttl) and whether delete or
             \* clear has removed k since
  rPc,       \* retryRequest: where the call is (idle, calling, waiting, returned, threw)
  rMax,      \* retryRequest: argument maxRetries
  rDelay,    \* retryRequest: argument delay
  rAttempt,  \* retryRequest: loop variable attempt
  rLastError,\* retryRequest: local lastError
  rWake,     \* retryRequest: the time the pending setTimeout fires
  rOut,      \* retryRequest: the value returned or the value thrown
  rSignal,   \* whether the caller's AbortController has been aborted
  rPlan,     \* the operation passed as requestFn: the invocation on which it
             \* first succeeds (0: it fails every time)
  rLog,      \* the invocations of requestFn so far: start time, state of the
             \* caller's signal at the start, outcome
  rWaits,    \* the waits so far: the time the wait began and its length
  responseCache, \* proxy route: Map<string, {data, timestamp, ttl}>
  enableCache,   \* process.env.ENABLE_CACHE === 'true'
  pxFlight,  \* the proxy requests suspended at their upstream call: the
             \* request, whether responseCache.get was called for it and the
             \* upstream calls made for it
  pxResp,    \* the response the proxy handler sent last
  pxDeclared,\* per cache key: the content type upstream declared for the stored payload
  vText,     \* validateText: argument text of the last call
  vMax,      \* validateText: argument max_text_length of the last call
  vRet,      \* validateText: what the last call returned
  vPatterns, \* validateText: lastIndex of the pattern objects of the last call
  vFirst,    \* validateText: what the first of the calls with these arguments returned
  vRepeat,   \* validateText: calls made in a row with these arguments
  wMounted,  \* Welcome: the mount effect has run
  wInput,    \* Welcome: state input
  wResponse, \* Welcome: state response
  wIsLoading,\* Welcome: state isLoading
  wError,    \* Welcome: state error
  wRemaining,\* Welcome: state remainingRequests (the count displayed)
  wPc,       \* Welcome: the await handleRequest is suspended at (idle: none)
  wHttp,     \* Welcome: the response fetch resolved with
  wEvent,    \* Welcome: the event handled last; for a submit the input, what
             \* checkLimit answered and the localStorage item before it
  wDone,     \* Welcome: how the submit that ended last ended, and
             \* getRemainingRequests() at its end
  hMounted,  \* useApi: the hook is not yet mounted, mounted, or unmounted
  hOpts,     \* useApi: the options the hook was mounted with
  hData,     \* useApi: state data, and the call that wrote it (0: none, mutate)
  hLoading,  \* useApi: state loading
  hError,    \* useApi: state error, and the call that wrote it
  hRef,      \* useApi: abortControllerRef.current (0: null)
  hAborted,  \* useApi: the controllers abort() was called on
  hStarted,  \* useApi: fetchData calls that created a controller so far
  hCalls,    \* useApi: per fetchData call where it is, its attempt, the
             \* controller whose signal its pending fetch got (0: none), and
             \* whether it started a fetch or wrote state while superseded
  hEvent     \* useApi: the operation that ran last

srvVars == <<store, shadow, sFirst, sCalls>>
cliVars == <<storage, cFirst, cCalls>>
epVars == <<pc, reqIp, reqTrail, resp, admitted>>
cacheVars == <<cache, cacheRet, lastSet>>
retryVars == <<rPc, rMax, rDelay, rAttempt, rLastError, rWake, rOut, rSignal, rPlan, rLog, rWaits>>
proxyVars == <<responseCache, enableCache, pxFlight, pxResp, pxDeclared>>
validateVars == <<vText, vMax, vRet, vPatterns, vFirst, vRepeat>>
welcomeVars == <<wMounted, wInput, wResponse, wIsLoading, wError, wRemaining, wPc, wHttp,
                 wEvent, wDone>>
hookVars == <<hMounted, hOpts, hData, hLoading, hError, hRef, hAborted, hStarted, hCalls, hEvent>>
rets == <<ret, cRet, shadowRet>>
vars == <<now, rets, srvVars, cliVars, epVars, cacheVars, retryVars, proxyVars, validateVars, welcomeVars, hookVars>>

\* ------------------------------------------------------------------------
\* Helpers

Min(a, b) == IF a < b THEN a ELSE b
Max(a, b) == IF a > b THEN a ELSE b

\* Map.set(key, value)
MapSet(m, k, v) == [x \in DOMAIN m \cup {k} |-> IF x = k THEN v ELSE m[x]]

\* Map.delete over a set of keys
MapDeleteAll(m, ks) == [x \in DOMAIN m \ ks |-> m[x]]

EmptyMap == [x \in {} |-> 0]

NoRet == [op |-> "none", key |-> "", allowed |-> FALSE, num |-> -1, at |-> -1]

Reqs == 1 .. NumReq

\* What a promise settles with or a function completes with: a returned
\* value, or a thrown value that is an Error object (with its name) or not.
Returned(v) == [kind |-> "value", isError |-> FALSE, name |-> "", text |-> v]
ThrownError(name, message) == [kind |-> "thrown", isError |-> TRUE, name |-> name, text |-> message]
ThrownOther(v) == [kind |-> "thrown", isError |-> FALSE, name |-> "", text |-> v]
Undefined == [kind |-> "undefined", isError |-> FALSE, name |-> "", text |-> ""]
Pending == [kind |-> "pending", isError |-> FALSE, name |-> "", text |-> ""]

\* A request that has gone through no gate yet.  `empty` tells whether the
\* text in its body is empty or whitespace only, `categories` the categories
\* the moderation flagged and `failure` the value the catch block caught.
NoTrail == [gates |-> <<>>, input |-> "unread", empty |-> FALSE,
            credential |-> "unread", flagged |-> FALSE,
            categories |-> <<>>, failure |-> Undefined]
NoResp == [status |-> 0, key |-> "", remaining |-> -1, error |-> "", trail |-> NoTrail]

\* ------------------------------------------------------------------------
\* ServerRateLimiter

\* `!entry || now > entry.resetTime`
ServerExpired(st, t, ip) == ip \notin DOMAIN st \/ t > st[ip].resetTime

\* checkLimit with the quota test `entry.count > MAX_REQUESTS`
ServerCheckLimit_OffByOne(st, t, ip) ==
  IF ServerExpired(st, t, ip)
  THEN [store   |-> MapSet(st, ip, [count |-> 1, resetTime |-> t + STORAGE_WINDOW_MS]),
        allowed |-> TRUE]
  ELSE IF st[ip].count > MAX_REQUESTS
       THEN [store |-> st, allowed |-> FALSE]
       ELSE [store   |-> MapSet(st, ip, [st[ip] EXCEPT !.count = @ + 1]),
             allowed |-> TRUE]

\* checkLimit counting the denied request too
ServerCheckLimit_CountsDenied(st, t, ip) ==
  IF ServerExpired(st, t, ip)
  THEN [store   |-> MapSet(st, ip, [count |-> 1, resetTime |-> t + STORAGE_WINDOW_MS]),
        allowed |-> TRUE]
  ELSE [store   |-> MapSet(st, ip, [st[ip] EXCEPT !.count = @ + 1]),
        allowed |-> st[ip].count < MAX_REQUESTS]

\* checkLimit whose increment is lost
ServerCheckLimit_LostUpdate(st, t, ip) ==
  IF ServerExpired(st, t, ip)
  THEN [store   |-> MapSet(st, ip, [count |-> 1, resetTime |-> t + STORAGE_WINDOW_MS]),
        allowed |-> TRUE]
  ELSE IF st[ip].count >= MAX_REQUESTS
       THEN [store |-> st, allowed |-> FALSE]
       ELSE [store |-> st, allowed |-> TRUE]

\* static checkLimit(ip): the store after the call and the value returned
ServerCheckLimit(st, t, ip) ==
  IF ServerExpired(st, t, ip)
  THEN [store   |-> MapSet(st, ip, [count |-> 1, resetTime |-> t + STORAGE_WINDOW_MS]),
        allowed |-> TRUE]
  ELSE IF st[ip].count >= MAX_REQUESTS
       THEN [store |-> st, allowed |-> FALSE]
       ELSE [store   |-> MapSet(st, ip, [st[ip] EXCEPT !.count = @ + 1]),
             allowed |-> TRUE]

\* getRemaining without the expiry test
ServerGetRemaining_IgnoresExpiry(st, t, ip) ==
  IF ip \notin DOMAIN st
  THEN MAX_REQUESTS
  ELSE Max(0, MAX_REQUESTS - st[ip].count)

\* getRemaining counting one request less than the entry holds
ServerGetRemaining_OffByOne(st, t, ip) ==
  IF ServerExpired(st, t, ip)
  THEN MAX_REQUESTS
  ELSE Max(0, MAX_REQUESTS - st[ip].count + 1)

\* static getRemaining(ip)
ServerGetRemaining(st, t, ip) ==
  IF ServerExpired(st, t, ip)
  THEN MAX_REQUESTS
  ELSE Max(0, MAX_REQUESTS - st[ip].count)

\* static cleanup()
ServerCleanup(st, t) ==
  MapDeleteAll(st, {ip \in DOMAIN st : t > st[ip].resetTime})

\* ------------------------------------------------------------------------
\* ApiCache

\* set(key, data, ttl)
ApiCacheSet(c, t, key, data, ttl) ==
  MapSet(c, key, [data |-> data, timestamp |-> t, ttl |-> ttl])

\* get with the expiry test `Date.now() - item.timestamp >= item.ttl`
ApiCacheGet_ExpiresAtTtl(c, t, key) ==
  IF key \notin DOMAIN c
  THEN [cache |-> c, data |-> JsNull]
  ELSE IF t - c[key].timestamp >= c[key].ttl
       THEN [cache |-> MapDeleteAll(c, {key}), data |-> JsNull]
       ELSE [cache |-> c, data |-> c[key].data]

\* get(key): the cache after the call and the value returned
ApiCacheGet(c, t, key) ==
  IF key \notin DOMAIN c
  THEN [cache |-> c, data |-> JsNull]
  ELSE IF t - c[key].timestamp > c[key].ttl
       THEN [cache |-> MapDeleteAll(c, {key}), data |-> JsNull]
       ELSE [cache |-> c, data |-> c[key].data]

\* delete(key): the cache after the call and the value returned
ApiCacheDelete(c, key) ==
  [cache |-> MapDeleteAll(c, {key}), deleted |-> key \in DOMAIN c]

\* clear()
ApiCacheClear(c) == EmptyMap

\* ------------------------------------------------------------------------
\* ClientRateLimiter

\* JSON.parse(localStorage.getItem('translation_requests') || '[]')
ClientRequests(sto) == IF sto.present THEN sto.items ELSE <<>>

\* requests.filter(timestamp => now - timestamp < STORAGE_WINDOW_MS)
ClientValidRequests(sto, t) ==
  SelectSeq(ClientRequests(sto), LAMBDA ts : t - ts < STORAGE_WINDOW_MS)

\* checkLimit with the quota test `validRequests.length > MAX_REQUESTS`
ClientCheckLimit_OffByOne(sto, t) ==
  LET validRequests == ClientValidRequests(sto, t) IN
  IF Len(validRequests) > MAX_REQUESTS
  THEN [storage |-> sto, allowed |-> FALSE]
  ELSE [storage |-> [present |-> TRUE, items |-> Append(validRequests, t)],
        allowed |-> TRUE]

\* static checkLimit(): the storage after the call and the value returned
ClientCheckLimit(sto, t) ==
  LET validRequests == ClientValidRequests(sto, t) IN
  IF Len(validRequests) >= MAX_REQUESTS
  THEN [storage |-> sto, allowed |-> FALSE]
  ELSE [storage |-> [present |-> TRUE, items |-> Append(validRequests, t)],
        allowed |-> TRUE]

\* static getRemainingRequests()
ClientGetRemainingRequests(sto, t) ==
  Max(0, MAX_REQUESTS - Len(ClientValidRequests(sto, t)))

\* ------------------------------------------------------------------------
\* Initial state: empty store, nothing in localStorage.

LimInit ==
  /\ store = EmptyMap
  /\ shadow = EmptyMap
  /\ storage = [present |-> FALSE, items |-> <<>>]
  /\ sFirst = [ip \in IPs |-> -1]
  /\ sCalls = [ip \in IPs |-> 0]
  /\ cFirst = -1
  /\ cCalls = 0

EpInit ==
  /\ pc = [p \in Reqs |-> "idle"]
  /\ reqIp = [p \in Reqs |-> "unknown"]
  /\ reqTrail = [p \in Reqs |-> NoTrail]
  /\ resp = NoResp
  /\ admitted = [ip \in IPs |-> [window |-> -1, n |-> 0]]

NoCacheRet == [op |-> "none", key |-> "", data |-> JsNull, deleted |-> FALSE]

NeverSet == [has |-> FALSE, data |-> JsNull, at |-> 0, ttl |-> 0, removed |-> FALSE]

CacheInit ==
  /\ cache = EmptyMap
  /\ cacheRet = NoCacheRet
  /\ lastSet = [k \in CacheKeys |-> NeverSet]

RetryInit ==
  /\ rPc = "idle"
  /\ rMax = 0
  /\ rDelay = 0
  /\ rAttempt = 0
  /\ rLastError = Undefined
  /\ rWake = 0
  /\ rOut = Pending
  /\ rSignal = FALSE
  /\ rPlan = 0
  /\ rLog = <<>>
  /\ rWaits = <<>>

NoMarker == [name |-> "", value |-> ""]

NoProxyResp ==
  [kind |-> "none", method |-> "", path |-> "", search |-> "", status |-> 0,
   marker |-> NoMarker, ctype |-> "", declared |-> "", body |-> "", source |-> "",
   consulted |-> FALSE, calls |-> 0, cause |-> ""]

ProxyInit ==
  /\ responseCache = EmptyMap
  /\ enableCache = FALSE
  /\ pxFlight = {}
  /\ pxResp = NoProxyResp
  /\ pxDeclared = EmptyMap

NoText == [len |-> 0, blank |-> TRUE, hits |-> {}]
NoValidation == [isValid |-> FALSE, error |-> ""]

ValidateInit ==
  /\ vText = NoText
  /\ vMax = 0
  /\ vRet = NoValidation
  /\ vPatterns = EmptyMap
  /\ vFirst = NoValidation
  /\ vRepeat = 0

WelcomeInit ==
  /\ wMounted = FALSE
  /\ wInput = ""
  /\ wResponse = ""
  /\ wIsLoading = FALSE
  /\ wError = ""
  /\ wRemaining = 0
  /\ wPc = "idle"
  /\ wHttp = [ok |-> FALSE, response |-> "", error |-> "none"]
  /\ wEvent = [op |-> "none", input |-> "", allowed |-> "unchecked",
               before |-> [present |-> FALSE, items |-> <<>>]]
  /\ wDone = [kind |-> "none", remaining |-> 0]

HookInit ==
  /\ hMounted = "no"
  /\ hOpts = [enabled |-> TRUE, method |-> "GET", cache |-> TRUE, retries |-> 1]
  /\ hData = [value |-> JsNull, by |-> 0]
  /\ hLoading = FALSE
  /\ hError = [text |-> JsNull, by |-> 0]
  /\ hRef = 0
  /\ hAborted = {}
  /\ hStarted = 0
  /\ hCalls = [c \in 1 .. NumCalls |->
                 [pc |-> "free", attempt |-> 0, signal |-> 0,
                  staleFetch |-> FALSE, staleWrite |-> FALSE]]
  /\ hEvent = "none"

Init ==
  /\ now = 0
  /\ ret = NoRet
  /\ cRet = NoRet
  /\ shadowRet = NoRet
  /\ LimInit
  /\ EpInit
  /\ CacheInit
  /\ RetryInit
  /\ ProxyInit
  /\ ValidateInit
  /\ WelcomeInit
  /\ HookInit

\* ------------------------------------------------------------------------
\* Steps of the two limiters (what one call does to its own state)

\* ServerRateLimiter.checkLimit(ip), on the store and on the shadow store
SrvCheck(ip) ==
  LET r == ServerCheckLimit(store, now, ip)
      s == ServerCheckLimit(shadow, now, ip) IN
  /\ store' = r.store
  /\ ret' = [op |-> "checkLimit", key |-> ip, allowed |-> r.allowed, num |-> -1, at |-> now]
  /\ shadow' = s.store
  /\ shadowRet' = [op |-> "checkLimit", key |-> ip, allowed |-> s.allowed, num |-> -1, at |-> now]
  /\ IF ip \notin DOMAIN store
     THEN /\ sFirst' = [sFirst EXCEPT ![ip] = now]
          /\ sCalls' = [sCalls EXCEPT ![ip] = 1]
     ELSE /\ sFirst' = sFirst
          /\ sCalls' = [sCalls EXCEPT ![ip] = Min(@ + 1, MAX_REQUESTS + 2)]

\* ServerRateLimiter.getRemaining(ip)
SrvRemaining(ip) ==
  /\ ret' = [op |-> "getRemaining", key |-> ip, allowed |-> FALSE,
             num |-> ServerGetRemaining(store, now, ip), at |-> now]
  /\ shadowRet' = [op |-> "getRemaining", key |-> ip, allowed |-> FALSE,
                   num |-> ServerGetRemaining(shadow, now, ip), at |-> now]
  /\ UNCHANGED srvVars

\* ClientRateLimiter.checkLimit()
CliCheck ==
  LET r == ClientCheckLimit(storage, now) IN
  /\ storage' = r.storage
  /\ cRet' = [op |-> "checkLimit", key |-> "", allowed |-> r.allowed, num |-> -1, at |-> now]
  /\ IF ClientRequests(storage) = <<>>
     THEN cFirst' = now /\ cCalls' = 1
     ELSE cFirst' = cFirst /\ cCalls' = Min(cCalls + 1, MAX_REQUESTS + 2)

\* ClientRateLimiter.getRemainingRequests()
CliRemaining ==
  /\ cRet' = [op |-> "getRemaining", key |-> "", allowed |-> FALSE,
              num |-> ClientGetRemainingRequests(storage, now), at |-> now]
  /\ UNCHANGED cliVars

\* ------------------------------------------------------------------------
\* Actions

\* The clock advances.
Tick ==
  /\ now < MaxTime
  /\ now' = now + 1
  /\ ret' = NoRet /\ cRet' = NoRet /\ shadowRet' = NoRet
  /\ UNCHANGED <<srvVars, cliVars, epVars, cacheVars, retryVars, proxyVars, validateVars, welcomeVars, hookVars>>

DoServerCheckLimit(ip) ==
  /\ SrvCheck(ip)
  /\ cRet' = NoRet
  /\ UNCHANGED <<now, cliVars, epVars, cacheVars, retryVars, proxyVars, validateVars, welcomeVars, hookVars>>

DoServerGetRemaining(ip) ==
  /\ SrvRemaining(ip)
  /\ cRet' = NoRet
  /\ UNCHANGED <<now, cliVars, epVars, cacheVars, retryVars, proxyVars, validateVars, welcomeVars, hookVars>>

\* setInterval(() => ServerRateLimiter.cleanup(), 5 * 60 * 1000)
DoServerCleanup ==
  /\ store' = ServerCleanup(store, now)
  /\ ret' = [NoRet EXCEPT !.op = "cleanup", !.at = now]
  /\ shadowRet' = [NoRet EXCEPT !.op = "cleanup", !.at = now]
  /\ cRet' = NoRet
  /\ UNCHANGED <<now, shadow, sFirst, sCalls, cliVars, epVars, cacheVars, retryVars, proxyVars, validateVars, welcomeVars, hookVars>>

\* One identity asks both limiters at the same instant.
BothCheckLimit ==
  /\ SrvCheck(ClientIp)
  /\ CliCheck
  /\ UNCHANGED <<now, epVars, cacheVars, retryVars, proxyVars, validateVars, welcomeVars, hookVars>>

BothGetRemaining ==
  /\ SrvRemaining(ClientIp)
  /\ CliRemaining
  /\ UNCHANGED <<now, epVars, cacheVars, retryVars, proxyVars, validateVars, welcomeVars, hookVars>>

\* The server-side limiter under request traffic, sweeps and clock advances.
Next ==
  \/ Tick
  \/ \E ip \in IPs : DoServerCheckLimit(ip)
  \/ \E ip \in IPs : DoServerGetRemaining(ip)
  \/ DoServerCleanup

Spec == Init /\ [][Next]_vars

\* Both limiters fed the same request times of one identity, next to other
\* keys' traffic and sweeps on the server.
NextPolicy ==
  \/ Tick
  \/ BothCheckLimit
  \/ BothGetRemaining
  \/ \E ip \in IPs \ {ClientIp} : DoServerCheckLimit(ip)
  \/ DoServerCleanup

SpecPolicy == Init /\ [][NextPolicy]_vars

\* ------------------------------------------------------------------------
\* Question endpoint: export async function POST(request).  A request runs
\* from one await to the next without interleaving; other requests, the
\* sweep timer and the clock run while it is suspended.

ValidateText_LengthFirst(text) ==
  IF text.tooLong THEN [isValid |-> FALSE, error |-> "Text too long"]
  ELSE IF text.empty THEN [isValid |-> FALSE, error |-> "Please enter some text to translate"]
  ELSE IF text.suspicious THEN [isValid |-> FALSE, error |-> "Potentially malicious content detected"]
  ELSE IF text.spam THEN [isValid |-> FALSE, error |-> "Content contains prohibited patterns"]
  ELSE [isValid |-> TRUE, error |-> ""]

\* InputValidator.validateText(text, max_text_length) on a text described by
\* what the checks see in it: empty after trim, longer than the limit,
\* matching a suspicious pattern, matching a spam pattern.
ValidateText(text) ==
  IF text.empty THEN [isValid |-> FALSE, error |-> "Please enter some text to translate"]
  ELSE IF text.tooLong THEN [isValid |-> FALSE, error |-> "Text too long"]
  ELSE IF text.suspicious THEN [isValid |-> FALSE, error |-> "Potentially malicious content detected"]
  ELSE IF text.spam THEN [isValid |-> FALSE, error |-> "Content contains prohibited patterns"]
  ELSE [isValid |-> TRUE, error |-> ""]

\* The texts a request body may carry.
Texts ==
  {t \in [empty : BOOLEAN, tooLong : BOOLEAN, suspicious : BOOLEAN, spam : BOOLEAN] :
     t.empty => ~t.suspicious /\ ~t.spam}

\* The window checkLimit has just admitted a request into, and the number
\* admitted into that window so far.
Admit(adm, st, ip) ==
  IF adm[ip].window = st[ip].resetTime
  THEN [adm EXCEPT ![ip].n = @ + 1]
  ELSE [adm EXCEPT ![ip] = [window |-> st[ip].resetTime, n |-> 1]]

\* Requests in flight are anonymous; their slots are kept in one canonical
\* order (by await, then by caller, free slots last), so that runs differing
\* only in the numbering of the slots are the same run.
SlotRank(at, ip) ==
  (CASE at = "json" -> 0 [] at = "moderation" -> 2 [] at = "completion" -> 4 [] OTHER -> 6)
  + (IF ip = ClientIp THEN 0 ELSE 1)

\* f without slot p: the later slots move up and the last one is free.
SlotRemoved(f, p, free) ==
  [i \in Reqs |-> IF i < p THEN f[i] ELSE IF i < NumReq THEN f[i + 1] ELSE free]

\* f with x put into slot k: the slots from k on move down.
SlotInserted(f, k, x) ==
  [i \in Reqs |-> IF i < k THEN f[i] ELSE IF i = k THEN x ELSE f[i - 1]]

\* The handler returns its response; its slot is given up.
Respond(p, status, ip, remaining, error, trail) ==
  /\ pc' = SlotRemoved(pc, p, "idle")
  /\ reqIp' = SlotRemoved(reqIp, p, "unknown")
  /\ reqTrail' = SlotRemoved(reqTrail, p, NoTrail)
  /\ resp' = [status |-> status, key |-> ip, remaining |-> remaining,
              error |-> error, trail |-> trail]

\* The handler suspends at an await: the request of slot p takes the slot
\* its await and caller rank it into.
Suspend(p, at, ip, trail) ==
  LET pcs == SlotRemoved(pc, p, "idle")
      ips == SlotRemoved(reqIp, p, "unknown")
      k == 1 + Cardinality({i \in Reqs : SlotRank(pcs[i], ips[i]) <= SlotRank(at, ip)}) IN
  /\ pc' = SlotInserted(pcs, k, at)
  /\ reqIp' = SlotInserted(ips, k, ip)
  /\ reqTrail' = SlotInserted(SlotRemoved(reqTrail, p, NoTrail), k, trail)
  /\ resp' = NoResp

AfterJson_CredentialFirst(text, apiKey) ==
  IF ~apiKey
  THEN [status |-> 500, error |-> "Translation service temporarily unavailable",
        gates |-> <<"credential">>]
  ELSE IF ~ValidateText(text).isValid
  THEN [status |-> 400, error |-> ValidateText(text).error,
        gates |-> <<"credential", "validation">>]
  ELSE [status |-> 0, error |-> "", gates |-> <<"credential", "validation">>]

\* After request.json(): the gates gone through, and the early response
\* (status and error), or status 0 when the handler goes on to the
\* moderation call.
AfterJson(text, apiKey) ==
  IF ~ValidateText(text).isValid
  THEN [status |-> 400, error |-> ValidateText(text).error, gates |-> <<"validation">>]
  ELSE IF ~apiKey
  THEN [status |-> 500, error |-> "Translation service temporarily unavailable",
        gates |-> <<"validation", "credential">>]
  ELSE [status |-> 0, error |-> "", gates |-> <<"validation", "credential">>]

EpCatch_Generic(error) == [status |-> 500, error |-> "Internal server error"]

\* catch (error): status 500 with the message of the Error caught, or with
\* 'OpenAI failed' when the value caught is not an Error.
EpCatch(error) ==
  [status |-> 500, error |-> IF error.isError THEN error.text ELSE "OpenAI failed"]

\* The handler returns the catch block's response for the value thrown.
RespondCaught(p, error, trail) ==
  Respond(p, EpCatch(error).status, reqIp[p], -1, EpCatch(error).error,
          [trail EXCEPT !.failure = error])

\* What the body's `input` makes validateText throw when it is neither a
\* string nor falsy (a number, an array, an object): text.trim is undefined.
NotAString == ThrownError("TypeError", "text.trim is not a function")

\* The categories of a moderation result, in the order of Object.keys.
Categories == <<"hate", "violence">>

\* Array.prototype.join(', ')
RECURSIVE JoinComma(_)
JoinComma(names) ==
  IF names = <<>> THEN ""
  ELSE IF Len(names) = 1 THEN names[1]
  ELSE names[1] \o ", " \o JoinComma(Tail(names))

\* keys.filter(key => categories[key]): the keys whose category is set.
RECURSIVE FlaggedCategories(_, _)
FlaggedCategories(keys, categories) ==
  IF keys = <<>> THEN <<>>
  ELSE (IF categories[keys[1]] THEN <<keys[1]>> ELSE <<>>)
         \o FlaggedCategories(Tail(keys), categories)

FlaggedMessage(categories) ==
  "Content flagged as inappropriate: " \o JoinComma(FlaggedCategories(Categories, categories))

\* moderatedText.results[0] as the moderation service gives it: flagged is
\* set exactly when some category is.
ModerationResults ==
  {[flagged |-> \E i \in 1..Len(Categories) : c[Categories[i]], categories |-> c] :
     c \in {[hate |-> FALSE, violence |-> FALSE], [hate |-> TRUE, violence |-> FALSE],
            [hate |-> TRUE, violence |-> TRUE]}}

\* What a call of the OpenAI client rejects with.
UpstreamThrows == {ThrownError("Error", "Connection error."), ThrownOther("socket hang up")}

\* Entry to the first await: resolve the caller, ServerRateLimiter.checkLimit,
\* then `await request.json()`.  A denied request returns at once, its body
\* unread; an admitted one stays in flight (in the first free slot).
EpBegin(ip) ==
  LET r == ServerCheckLimit(store, now, ip)
      free == {p \in Reqs : pc[p] = "idle"}
      trail == [NoTrail EXCEPT !.gates = <<"rateLimit">>] IN
  /\ r.allowed => free # {}
  /\ store' = r.store
  /\ ret' = [op |-> "checkLimit", key |-> ip, allowed |-> r.allowed, num |-> -1, at |-> now]
  /\ IF r.allowed
     THEN /\ admitted' = Admit(admitted, r.store, ip)
          /\ Suspend(CHOOSE p \in free : \A q \in free : p <= q, "json", ip, trail)
     ELSE /\ admitted' = admitted
          /\ \E empty \in BOOLEAN :
               resp' = [status |-> 429, key |-> ip, remaining |-> -1,
                        error |-> "Rate limit exceeded. Please try again later.",
                        trail |-> [trail EXCEPT !.empty = empty]]
          /\ UNCHANGED <<pc, reqIp, reqTrail>>
  /\ cRet' = NoRet /\ shadowRet' = NoRet
  /\ UNCHANGED <<now, shadow, sFirst, sCalls, cliVars, cacheVars, retryVars, proxyVars, validateVars, welcomeVars, hookVars>>

\* What the handler has seen of a request after request.json() gave `text`
\* and the environment `apiKey`: the gates gone through and what they read.
TrailAfterJson(trail, text, apiKey) ==
  LET a == AfterJson(text, apiKey)
      read(g) == \E i \in 1..Len(a.gates) : a.gates[i] = g IN
  [trail EXCEPT
     !.gates = @ \o a.gates,
     !.input = IF ValidateText(text).isValid THEN "valid" ELSE "invalid",
     !.empty = text.empty,
     !.credential = IF ~read("credential") THEN "unread"
                    ELSE IF apiKey THEN "present" ELSE "absent"]

\* request.json() settles: validation, credential check, then
\* `await client.moderations.create(...)`.
EpJson(p) ==
  /\ pc[p] = "json"
  /\ \/ RespondCaught(p, ThrownError("SyntaxError", "Unexpected token"), reqTrail[p])  \* the body does not parse
     \/ RespondCaught(p, NotAString, [reqTrail[p] EXCEPT !.gates = Append(@, "validation"),
                                                         !.input = "threw"])
     \/ \E o \in {[status |-> AfterJson(text, apiKey).status,
                   error |-> AfterJson(text, apiKey).error,
                   trail |-> TrailAfterJson(reqTrail[p], text, apiKey)] :
                     text \in Texts, apiKey \in BOOLEAN} :
          IF o.status = 0
          THEN Suspend(p, "moderation", reqIp[p], [o.trail EXCEPT !.gates = Append(@, "moderation")])
          ELSE Respond(p, o.status, reqIp[p], -1, o.error, o.trail)
  /\ ret' = NoRet /\ cRet' = NoRet /\ shadowRet' = NoRet
  /\ UNCHANGED <<now, srvVars, cliVars, admitted, cacheVars, retryVars, proxyVars, validateVars, welcomeVars, hookVars>>

\* The moderation call settles; unless flagged,
\* `await client.responses.create(...)`.
EpModeration(p) ==
  /\ pc[p] = "moderation"
  /\ \/ \E error \in UpstreamThrows : RespondCaught(p, error, reqTrail[p])          \* the call throws
     \/ \E m \in ModerationResults :
          IF m.flagged
          THEN Respond(p, 400, reqIp[p], -1, FlaggedMessage(m.categories),
                       [reqTrail[p] EXCEPT !.flagged = TRUE,
                          !.categories = FlaggedCategories(Categories, m.categories)])
          ELSE Suspend(p, "completion", reqIp[p],
                       [reqTrail[p] EXCEPT !.gates = Append(@, "completion")])
  /\ ret' = NoRet /\ cRet' = NoRet /\ shadowRet' = NoRet
  /\ UNCHANGED <<now, srvVars, cliVars, admitted, cacheVars, retryVars, proxyVars, validateVars, welcomeVars, hookVars>>

\* The completion call settles; on success the response carries
\* ServerRateLimiter.getRemaining(ip).
EpCompletion(p) ==
  /\ pc[p] = "completion"
  /\ \E status \in {"completed", "failed", "rejected"} :
       IF status = "completed"
       THEN /\ Respond(p, 200, reqIp[p], ServerGetRemaining(store, now, reqIp[p]), "", reqTrail[p])
            /\ ret' = [op |-> "getRemaining", key |-> reqIp[p], allowed |-> FALSE,
                       num |-> ServerGetRemaining(store, now, reqIp[p]), at |-> now]
       ELSE /\ IF status = "failed"
               THEN RespondCaught(p, ThrownError("Error", "Responses API error: failed"), reqTrail[p])
               ELSE \E error \in UpstreamThrows : RespondCaught(p, error, reqTrail[p])   \* the call throws
            /\ ret' = NoRet
  /\ cRet' = NoRet /\ shadowRet' = NoRet
  /\ UNCHANGED <<now, srvVars, cliVars, admitted, cacheVars, retryVars, proxyVars, validateVars, welcomeVars, hookVars>>

\* The clock advances while requests are suspended.
EpTick ==
  /\ now < EpMaxTime
  /\ Tick

\* Concurrent requests to the question endpoint in the server process.
NextEndpoint ==
  \/ EpTick
  \/ DoServerCleanup
  \/ \E ip \in IPs : EpBegin(ip)
  \/ \E p \in Reqs : EpJson(p)
  \/ \E p \in Reqs : EpModeration(p)
  \/ \E p \in Reqs : EpCompletion(p)

SpecEndpoint == Init /\ [][NextEndpoint]_vars

\* ------------------------------------------------------------------------
\* ApiCache under sets, gets, deletes, clears and clock advances.

CacheIdle ==
  /\ ret' = NoRet /\ cRet' = NoRet /\ shadowRet' = NoRet
  /\ UNCHANGED <<now, srvVars, cliVars, epVars, retryVars, proxyVars, validateVars, welcomeVars, hookVars>>

DoCacheSet(key, data, ttl) ==
  /\ cache' = ApiCacheSet(cache, now, key, data, ttl)
  /\ cacheRet' = [NoCacheRet EXCEPT !.op = "set", !.key = key]
  /\ lastSet' = [lastSet EXCEPT ![key] =
                   [has |-> TRUE, data |-> data, at |-> now, ttl |-> ttl, removed |-> FALSE]]
  /\ CacheIdle

DoCacheGet(key) ==
  LET r == ApiCacheGet(cache, now, key) IN
  /\ cache' = r.cache
  /\ cacheRet' = [NoCacheRet EXCEPT !.op = "get", !.key = key, !.data = r.data]
  /\ lastSet' = lastSet
  /\ CacheIdle

DoCacheDelete(key) ==
  LET r == ApiCacheDelete(cache, key) IN
  /\ cache' = r.cache
  /\ cacheRet' = [NoCacheRet EXCEPT !.op = "delete", !.key = key, !.deleted = r.deleted]
  /\ lastSet' = [lastSet EXCEPT ![key].removed = TRUE]
  /\ CacheIdle

DoCacheClear ==
  /\ cache' = ApiCacheClear(cache)
  /\ cacheRet' = [NoCacheRet EXCEPT !.op = "clear"]
  /\ lastSet' = [k \in CacheKeys |-> [lastSet[k] EXCEPT !.removed = TRUE]]
  /\ CacheIdle

CacheTick ==
  /\ now < CacheMaxTime
  /\ now' = now + 1
  /\ cacheRet' = NoCacheRet
  /\ UNCHANGED <<cache, lastSet, rets, srvVars, cliVars, epVars, retryVars, proxyVars, validateVars, welcomeVars, hookVars>>

NextCache ==
  \/ CacheTick
  \/ \E key \in CacheKeys, data \in Values, ttl \in TTLs : DoCacheSet(key, data, ttl)
  \/ \E key \in CacheKeys : DoCacheGet(key)
  \/ \E key \in CacheKeys : DoCacheDelete(key)
  \/ DoCacheClear

SpecCache == Init /\ [][NextCache]_vars

\* ------------------------------------------------------------------------
\* retryRequest(requestFn, maxRetries, delay).  The call runs from one await
\* to the next: `await requestFn()` and the backoff timer.

\* The values an invocation of requestFn settles with.  useApi's requestFn
\* hands the signal of abortControllerRef.current to fetch: while the ref
\* holds an aborted controller (after the unmount cleanup) the fetch, pending
\* or new, rejects with an AbortError.  A transport-level abort (a timeout)
\* rejects with an AbortError as well.
AbortError == ThrownError("AbortError", "The operation was aborted")

RequestFnOutcomes(aborted, plan, invocation) ==
  IF aborted THEN {AbortError}
  ELSE IF plan # 0 /\ invocation >= plan THEN {Returned("payload"), Returned(JsNull)}
  ELSE {ThrownError("Error", "HTTP error! status: 500"), AbortError, ThrownOther("boom")}

\* lastError = error instanceof Error ? error : new Error('Unknown error')
CaughtError(error) ==
  IF error.isError THEN error ELSE ThrownError("Error", "Unknown error")

RetryWaitTime_NoBackoff(delay, attempt) == delay

\* waitTime = delay * 2 ** (attempt - 1)
RetryWaitTime(delay, attempt) == delay * 2 ^ (attempt - 1)

RetryLastAttempt_OneShort(attempt, maxRetries) == attempt >= maxRetries - 1

\* attempt === maxRetries
RetryLastAttempt(attempt, maxRetries) == attempt = maxRetries

\* requestFn is invoked.
Invoke ==
  /\ rLog' = Append(rLog, [start |-> now, sig |-> rSignal, out |-> Pending])
  /\ rPc' = "calling"

\* The call: the loop is entered and requestFn invoked for the first time.
\* With maxRetries < 1 the loop body never runs and the statement after the
\* loop reads .message of the unassigned lastError, which throws a TypeError.
RetryStart(maxRetries, delay, plan) ==
  /\ rPc = "idle"
  /\ rPlan' = plan
  /\ rMax' = maxRetries
  /\ rDelay' = delay
  /\ IF 1 <= maxRetries
     THEN /\ rAttempt' = 1
          /\ Invoke
          /\ rOut' = rOut
     ELSE /\ rAttempt' = 1
          /\ rPc' = "threw"
          /\ rOut' = ThrownError("TypeError", "Cannot read properties of undefined")
          /\ rLog' = rLog
  /\ UNCHANGED <<rLastError, rWake, rSignal, rWaits>>
  /\ UNCHANGED <<now, rets, srvVars, cliVars, epVars, cacheVars, proxyVars, validateVars, welcomeVars, hookVars>>

\* `await requestFn()` settles: return on success; on failure keep the
\* error, rethrow it on the last attempt, otherwise start the backoff timer.
RetrySettle ==
  /\ rPc = "calling"
  /\ \E out \in RequestFnOutcomes(rSignal, rPlan, Len(rLog)) :
       /\ rLog' = [rLog EXCEPT ![Len(rLog)].out = out]
       /\ IF out.kind = "value"
          THEN /\ rPc' = "returned"
               /\ rOut' = out
               /\ UNCHANGED <<rLastError, rWake, rWaits>>
          ELSE /\ rLastError' = CaughtError(out)
               /\ IF RetryLastAttempt(rAttempt, rMax)
                  THEN /\ rPc' = "threw"
                       /\ rOut' = CaughtError(out)
                       /\ UNCHANGED <<rWake, rWaits>>
                  ELSE /\ rPc' = "waiting"
                       /\ rWake' = now + RetryWaitTime(rDelay, rAttempt)
                       /\ rWaits' = Append(rWaits, [from |-> now, length |-> RetryWaitTime(rDelay, rAttempt)])
                       /\ rOut' = rOut
  /\ UNCHANGED <<rMax, rDelay, rAttempt, rSignal, rPlan>>
  /\ UNCHANGED <<now, rets, srvVars, cliVars, epVars, cacheVars, proxyVars, validateVars, welcomeVars, hookVars>>

\* The backoff timer fires (not before its time): attempt++, next invocation.
RetryWake ==
  /\ rPc = "waiting"
  /\ now >= rWake
  /\ rAttempt' = rAttempt + 1
  /\ Invoke
  /\ UNCHANGED <<rMax, rDelay, rLastError, rWake, rOut, rSignal, rPlan, rWaits>>
  /\ UNCHANGED <<now, rets, srvVars, cliVars, epVars, cacheVars, proxyVars, validateVars, welcomeVars, hookVars>>

\* The caller aborts its AbortController while the call is under way
\* (useApi: the unmount cleanup).
RetryCallerAbort ==
  /\ rPc \in {"calling", "waiting"}
  /\ ~rSignal
  /\ rSignal' = TRUE
  /\ UNCHANGED <<rPc, rMax, rDelay, rAttempt, rLastError, rWake, rOut, rPlan, rLog, rWaits>>
  /\ UNCHANGED <<now, rets, srvVars, cliVars, epVars, cacheVars, proxyVars, validateVars, welcomeVars, hookVars>>

RetryTick ==
  /\ now < RetryMaxTime
  /\ now' = now + 1
  /\ UNCHANGED <<rets, srvVars, cliVars, epVars, cacheVars, retryVars, proxyVars, validateVars, welcomeVars, hookVars>>

NextRetry ==
  \/ RetryTick
  \/ \E maxRetries \in 0..MaxRetries, delay \in Delays, plan \in 0..MaxRetries :
       RetryStart(maxRetries, delay, plan)
  \/ RetrySettle
  \/ RetryWake
  \/ RetryCallerAbort

SpecRetry == Init /\ [][NextRetry]_vars

\* ------------------------------------------------------------------------
\* Proxy route: handleProxyRequest(request, pathSegments, method).  A request
\* runs without interleaving up to `await fetch(...)`; other requests and the
\* clock run while it is suspended there.

\* PROXY_CONFIGS[path]
Configured(path) == path = "users"

\* cacheKey = `${path}:${url.search}`
ProxyCacheKey(path, search) == path \o ":" \o search

\* method === 'GET' && process.env.ENABLE_CACHE === 'true'
ProxyReadsCache(method, enabled) == method = "GET" /\ enabled

\* cached && Date.now() - cached.timestamp < cacheTTL
ProxyCacheHit(c, t, key) ==
  key \in DOMAIN c /\ t - c[key].timestamp < CACHE_DURATION

ProxyStores_AnyMethod(method, ok, enabled) == ok /\ enabled

\* method === 'GET' && response.ok && process.env.ENABLE_CACHE === 'true'
ProxyStores(method, ok, enabled) == method = "GET" /\ ok /\ enabled

ProxyCatch_Generic(error) == 500

\* catch (error): 408 for an AbortError, 500 otherwise
ProxyCatch(error) ==
  IF error.isError /\ error.name = "AbortError" THEN 408 ELSE 500

\* What NextResponse.json sends for a body: JSON.stringify of an ArrayBuffer
\* is "{}"; other payloads are serialised as they are.
NextResponseJson(data) == IF data = "bytes" THEN "{}" ELSE data

\* What `await fetch(...)` and the read of the body settle with.  A response
\* declares a content type (or none); its body is read as JSON, as text, or
\* as an ArrayBuffer ("bytes").  The timeout aborts the fetch; the network or
\* response.json() may fail otherwise.
UpstreamResponses ==
  {[kind |-> "response", status |-> 200, ctype |-> "application/json", data |-> "json"],
   [kind |-> "response", status |-> 200, ctype |-> "text/plain", data |-> "text"],
   [kind |-> "response", status |-> 200, ctype |-> "none", data |-> "bytes"],
   [kind |-> "response", status |-> 503, ctype |-> "application/json", data |-> "failure"]}

\* response.ok
ResponseOk(status) == 200 <= status /\ status <= 299

UpstreamFailures ==
  {ThrownError("AbortError", "This operation was aborted"),
   ThrownError("TypeError", "fetch failed")}

\* The response sent for request q: status, cache-status header, Content-Type
\* header and body, with where the body came from ("cache", "upstream" or
\* the handler itself), the content type upstream declared for it and the
\* name of the error the catch block caught.
ProxyResponse(q, status, marker, ctype, declared, body, source, cause) ==
  [kind |-> "response", method |-> q.method, path |-> q.path, search |-> q.search,
   status |-> status, marker |-> marker, ctype |-> ctype, declared |-> declared,
   body |-> body, source |-> source, consulted |-> q.consulted, calls |-> q.calls,
   cause |-> cause]

\* Entry of a request up to the first point where it answers or awaits the
\* upstream: configuration lookup, cache check for GET, then fetch.  (Of
\* several identical requests one is suspended at a time.)
ProxyBegin(method, path, search) ==
  LET key == ProxyCacheKey(path, search)
      reads == Configured(path) /\ ProxyReadsCache(method, enableCache)
      q == [method |-> method, path |-> path, search |-> search,
            consulted |-> reads, calls |-> 0] IN
  /\ IF ~Configured(path)
     THEN /\ pxResp' = ProxyResponse(q, 404, NoMarker, "application/json", "",
                                     "API endpoint not configured", "handler", "")
          /\ pxFlight' = pxFlight
     ELSE IF reads /\ ProxyCacheHit(responseCache, now, key)
     THEN /\ pxResp' = ProxyResponse(q, 200, [name |-> "X-Cache", value |-> "HIT"],
                                     "application/json", pxDeclared[key],
                                     NextResponseJson(responseCache[key].data), "cache", "")
          /\ pxFlight' = pxFlight
     ELSE /\ Cardinality(pxFlight) < NumProxy
          /\ [q EXCEPT !.calls = 1] \notin pxFlight
          /\ pxFlight' = pxFlight \cup {[q EXCEPT !.calls = 1]}
          /\ pxResp' = NoProxyResp
  /\ UNCHANGED <<responseCache, enableCache, pxDeclared>>
  /\ UNCHANGED <<now, rets, srvVars, cliVars, epVars, cacheVars, retryVars, validateVars, welcomeVars, hookVars>>

\* The upstream call of request q settles: the body is read by content
\* type, a successful GET response is stored, and the response is passed
\* on; a failure is answered by the catch block.
ProxySettle(q) ==
  LET key == ProxyCacheKey(q.path, q.search) IN
  /\ q \in pxFlight
  /\ pxFlight' = pxFlight \ {q}
  /\ \/ \E up \in UpstreamResponses :
          /\ IF ProxyStores(q.method, ResponseOk(up.status), enableCache)
             THEN /\ responseCache' = MapSet(responseCache, key,
                         [data |-> up.data, timestamp |-> now, ttl |-> CACHE_DURATION])
                  /\ pxDeclared' = MapSet(pxDeclared, key, up.ctype)
             ELSE UNCHANGED <<responseCache, pxDeclared>>
          /\ pxResp' = ProxyResponse(q, up.status,
                          [name |-> "X-Proxy-Cache",
                           value |-> IF q.method = "GET" THEN "MISS" ELSE "N/A"],
                          IF up.ctype = "none" THEN "application/json" ELSE up.ctype,
                          up.ctype, NextResponseJson(up.data), "upstream", "")
     \/ \E error \in UpstreamFailures :
          /\ pxResp' = ProxyResponse(q, ProxyCatch(error), NoMarker, "application/json", "",
                          IF ProxyCatch(error) = 408 THEN "Request timeout"
                          ELSE "Internal server error",
                          "handler", error.name)
          /\ UNCHANGED <<responseCache, pxDeclared>>
  /\ enableCache' = enableCache
  /\ UNCHANGED <<now, rets, srvVars, cliVars, epVars, cacheVars, retryVars, validateVars, welcomeVars, hookVars>>

\* The deployment sets ENABLE_CACHE=true; the variable is read when the
\* process serves requests, so it is set before the first one.
ProxyEnableCache ==
  /\ ~enableCache
  /\ now = 0 /\ pxResp = NoProxyResp /\ pxFlight = {}
  /\ enableCache' = TRUE
  /\ UNCHANGED <<responseCache, pxFlight, pxResp, pxDeclared>>
  /\ UNCHANGED <<now, rets, srvVars, cliVars, epVars, cacheVars, retryVars, validateVars, welcomeVars, hookVars>>

ProxyTick ==
  /\ now < ProxyMaxTime
  /\ now' = now + 1
  /\ pxResp' = NoProxyResp
  /\ UNCHANGED <<responseCache, enableCache, pxFlight, pxDeclared>>
  /\ UNCHANGED <<rets, srvVars, cliVars, epVars, cacheVars, retryVars, validateVars, welcomeVars, hookVars>>

NextProxy ==
  \/ ProxyTick
  \/ ProxyEnableCache
  \/ \E method \in Methods, target \in Targets : ProxyBegin(method, target[1], target[2])
  \/ \E q \in pxFlight : ProxySettle(q)

SpecProxy == Init /\ [][NextProxy]_vars

\* ------------------------------------------------------------------------
\* InputValidator.validateText as a function of its arguments.  A text is
\* described by its length, by whether trim() leaves nothing of it, and by
\* the patterns that occur in it (each at most once).

SuspiciousPatterns == <<"script", "javascript", "handler", "dataHtml", "vbscript">>
SpamPatterns == <<"keyword", "url", "email">>

PatternNames ==
  {SuspiciousPatterns[i] : i \in 1..Len(SuspiciousPatterns)}
    \cup {SpamPatterns[i] : i \in 1..Len(SpamPatterns)}

ValidateTexts ==
  {t \in [len : 0..MaxTextLen, blank : BOOLEAN, hits : SUBSET PatternNames] :
     /\ Cardinality(t.hits) <= MaxHits
     /\ t.len = 0 => t.blank
     /\ t.blank => t.hits = {}}

Limits == 1 .. MaxLimit

PatternObjects_Hoisted(previous) == previous

\* The pattern arrays are literals inside the function: every call creates
\* new RegExp objects, whose lastIndex is 0, whatever the objects of the
\* previous call were left with.
PatternObjects(previous) == [n \in PatternNames |-> 0]

\* RegExp.prototype.test of a pattern with the g flag: the search starts at
\* lastIndex; a match leaves lastIndex behind it, a failed search leaves 0.
RegExpTest(lastIndex, text, name) ==
  LET found == name \in text.hits /\ lastIndex = 0 IN
  [found |-> found, lastIndex |-> IF found THEN 1 ELSE 0]

\* for (const pattern of patterns) { if (pattern.test(text)) return ... }
RECURSIVE AnyTest(_, _, _)
AnyTest(names, text, regs) ==
  IF names = <<>> THEN [found |-> FALSE, regs |-> regs]
  ELSE LET t == RegExpTest(regs[Head(names)], text, Head(names))
           after == [regs EXCEPT ![Head(names)] = t.lastIndex] IN
       IF t.found THEN [found |-> TRUE, regs |-> after]
       ELSE AnyTest(Tail(names), text, after)

TooLongError(max_text_length) ==
  "Text too long. Maximum " \o ToString(max_text_length) \o " characters allowed."

Invalid(error, regs) == [isValid |-> FALSE, error |-> error, regs |-> regs]

InputValidatorValidateText_SpamFirst(text, max_text_length, regs) ==
  IF text.len = 0 \/ text.blank
  THEN Invalid("Please enter some text to translate", regs)
  ELSE IF text.len > max_text_length
  THEN Invalid(TooLongError(max_text_length), regs)
  ELSE LET spam == AnyTest(SpamPatterns, text, regs) IN
       IF spam.found
       THEN Invalid("Content contains prohibited patterns", spam.regs)
       ELSE LET suspicious == AnyTest(SuspiciousPatterns, text, spam.regs) IN
            IF suspicious.found
            THEN Invalid("Potentially malicious content detected", suspicious.regs)
            ELSE [isValid |-> TRUE, error |-> "", regs |-> suspicious.regs]

\* static validateText(text, max_text_length), with the pattern objects it
\* works on: the result, and the pattern objects as the call leaves them.
InputValidatorValidateText(text, max_text_length, regs) ==
  IF text.len = 0 \/ text.blank
  THEN Invalid("Please enter some text to translate", regs)
  ELSE IF text.len > max_text_length
  THEN Invalid(TooLongError(max_text_length), regs)
  ELSE LET suspicious == AnyTest(SuspiciousPatterns, text, regs) IN
       IF suspicious.found
       THEN Invalid("Potentially malicious content detected", suspicious.regs)
       ELSE LET spam == AnyTest(SpamPatterns, text, suspicious.regs) IN
            IF spam.found
            THEN Invalid("Content contains prohibited patterns", spam.regs)
            ELSE [isValid |-> TRUE, error |-> "", regs |-> spam.regs]

\* A call validateText(text, max_text_length).
DoValidateText(text, max_text_length) ==
  LET r == InputValidatorValidateText(text, max_text_length, PatternObjects(vPatterns))
      again == vRepeat >= 1 /\ vText = text /\ vMax = max_text_length IN
  /\ vText' = text
  /\ vMax' = max_text_length
  /\ vRet' = [isValid |-> r.isValid, error |-> r.error]
  /\ vPatterns' = r.regs
  /\ vFirst' = IF again THEN vFirst ELSE [isValid |-> r.isValid, error |-> r.error]
  /\ vRepeat' = IF again THEN Min(vRepeat + 1, MaxRepeat) ELSE 1
  /\ UNCHANGED <<now, rets, srvVars, cliVars, epVars, cacheVars, retryVars, proxyVars,
                 welcomeVars, hookVars>>

NextValidate ==
  \E text \in ValidateTexts, max_text_length \in Limits : DoValidateText(text, max_text_length)

SpecValidate == Init /\ [][NextValidate]_vars

\* ------------------------------------------------------------------------
\* Welcome component: the question form.  handleRequest runs from one await
\* to the next; the button shows the loading state while a submit is in
\* progress.

\* What the text input may hold.
Inputs == {"", "  ", "How big is the earth?"}

\* String.prototype.trim
Trim(s) == IF s = "  " THEN "" ELSE s

\* What the HTTP call to /api/openai/responses may come back with: the ok
\* flag of the response and the JSON of its body.
ApiResponses ==
  {[ok |-> TRUE, response |-> "About 12,742 km across.", error |-> ""],
   [ok |-> FALSE, response |-> "", error |-> "Rate limit exceeded. Please try again later."],
   [ok |-> FALSE, response |-> "", error |-> ""]}

NoApiResponse == [ok |-> FALSE, response |-> "", error |-> "none"]

HandleRequestGate_LimiterFirst(input, sto, t) ==
  LET r == ClientCheckLimit(sto, t) IN
  IF ~r.allowed
  THEN [proceed |-> FALSE, error |-> "Rate limit exceeded. Please try again later.",
        storage |-> r.storage, allowed |-> "no"]
  ELSE IF Trim(input) = ""
  THEN [proceed |-> FALSE, error |-> "Please enter some text to translate",
        storage |-> r.storage, allowed |-> "yes"]
  ELSE [proceed |-> TRUE, error |-> "", storage |-> r.storage, allowed |-> "yes"]

\* handleRequest up to the HTTP call: the input check, then
\* ClientRateLimiter.checkLimit(); the error to show, the localStorage item
\* afterwards and whether the handler goes on to the call.
HandleRequestGate(input, sto, t) ==
  IF Trim(input) = ""
  THEN [proceed |-> FALSE, error |-> "Please enter some text to translate",
        storage |-> sto, allowed |-> "unchecked"]
  ELSE LET r == ClientCheckLimit(sto, t) IN
       IF ~r.allowed
       THEN [proceed |-> FALSE, error |-> "Rate limit exceeded. Please try again later.",
             storage |-> r.storage, allowed |-> "no"]
       ELSE [proceed |-> TRUE, error |-> "", storage |-> r.storage, allowed |-> "yes"]

NoEvent == [op |-> "none", input |-> "", allowed |-> "unchecked",
            before |-> [present |-> FALSE, items |-> <<>>]]

Event(op) == [NoEvent EXCEPT !.op = op]

\* The submit that ended in this step: how it ended and what
\* ClientRateLimiter.getRemainingRequests() is at its end.
Done(kind, sto, t) == [kind |-> kind, remaining |-> ClientGetRemainingRequests(sto, t)]

\* useEffect(() => setRemainingRequests(getRemainingRequests()), [])
WelcomeMount ==
  /\ ~wMounted
  /\ wMounted' = TRUE
  /\ wRemaining' = ClientGetRemainingRequests(storage, now)
  /\ wEvent' = Event("mount")
  /\ UNCHANGED <<wInput, wResponse, wIsLoading, wError, wPc, wHttp, wDone>>
  /\ UNCHANGED <<now, rets, srvVars, cliVars, epVars, cacheVars, retryVars, proxyVars,
                 validateVars, hookVars>>

\* onChange of the text input
WelcomeType(text) ==
  /\ wMounted
  /\ wInput' = text
  /\ wEvent' = Event("type")
  /\ UNCHANGED <<wMounted, wResponse, wIsLoading, wError, wRemaining, wPc, wHttp, wDone>>
  /\ UNCHANGED <<now, rets, srvVars, cliVars, epVars, cacheVars, retryVars, proxyVars,
                 validateVars, hookVars>>

\* A click on Ask Question: handleRequest up to `await fetch(...)`.
WelcomeSubmit ==
  LET g == HandleRequestGate(wInput, storage, now) IN
  /\ wMounted /\ ~wIsLoading
  /\ storage' = g.storage
  /\ wEvent' = [op |-> "submit", input |-> wInput, allowed |-> g.allowed, before |-> storage]
  /\ IF g.proceed
     THEN /\ wIsLoading' = TRUE
          /\ wError' = ""
          /\ wPc' = "fetch"
          /\ UNCHANGED <<wRemaining, wDone>>
     ELSE /\ wError' = g.error
          /\ wRemaining' = IF g.allowed = "no"
                           THEN ClientGetRemainingRequests(g.storage, now)
                           ELSE wRemaining
          /\ wDone' = Done(IF g.allowed = "no" THEN "denied" ELSE "empty", g.storage, now)
          /\ UNCHANGED <<wIsLoading, wPc>>
  /\ UNCHANGED <<wMounted, wInput, wResponse, wHttp>>
  /\ UNCHANGED <<now, rets, srvVars, cFirst, cCalls, epVars, cacheVars, retryVars, proxyVars,
                 validateVars, hookVars>>

\* catch (err) { setError(...) } finally { setIsLoading(false) }
WelcomeCatch(err) ==
  /\ wError' = IF err.isError THEN err.text ELSE "API failed"
  /\ wIsLoading' = FALSE
  /\ wPc' = "idle"
  /\ wHttp' = NoApiResponse
  /\ wDone' = Done("failed", storage, now)
  /\ UNCHANGED <<wResponse, wRemaining>>

\* The HTTP call settles: a response arrives (then `await response.json()`),
\* or fetch rejects.
WelcomeFetchSettles ==
  /\ wPc = "fetch"
  /\ \/ \E r \in ApiResponses :
          /\ wHttp' = r
          /\ wPc' = "json"
          /\ UNCHANGED <<wResponse, wIsLoading, wError, wRemaining, wDone>>
     \/ WelcomeCatch(ThrownError("TypeError", "Failed to fetch"))
  /\ wEvent' = Event("settle")
  /\ UNCHANGED <<wMounted, wInput>>
  /\ UNCHANGED <<now, rets, srvVars, cliVars, epVars, cacheVars, retryVars, proxyVars,
                 validateVars, hookVars>>

\* response.json() settles: the error of a failed call is thrown, the answer
\* of a successful one is shown and the remaining count refreshed.
WelcomeJsonSettles ==
  /\ wPc = "json"
  /\ \/ WelcomeCatch(ThrownError("SyntaxError", "Unexpected end of JSON input"))
     \/ /\ ~wHttp.ok
        /\ WelcomeCatch(ThrownError("Error", IF wHttp.error # "" THEN wHttp.error
                                              ELSE "API call failed"))
     \/ /\ wHttp.ok
        /\ wResponse' = wHttp.response
        /\ wRemaining' = ClientGetRemainingRequests(storage, now)
        /\ wIsLoading' = FALSE
        /\ wPc' = "idle"
        /\ wHttp' = NoApiResponse
        /\ wDone' = Done("succeeded", storage, now)
        /\ UNCHANGED wError
  /\ wEvent' = Event("settle")
  /\ UNCHANGED <<wMounted, wInput>>
  /\ UNCHANGED <<now, rets, srvVars, cliVars, epVars, cacheVars, retryVars, proxyVars,
                 validateVars, hookVars>>

\* A click on Reset: handleReset
WelcomeReset ==
  /\ wMounted
  /\ wInput' = ""
  /\ wResponse' = ""
  /\ wError' = ""
  /\ wEvent' = Event("reset")
  /\ UNCHANGED <<wMounted, wIsLoading, wRemaining, wPc, wHttp, wDone>>
  /\ UNCHANGED <<now, rets, srvVars, cliVars, epVars, cacheVars, retryVars, proxyVars,
                 validateVars, hookVars>>

\* The clock advances.
WelcomeTick ==
  /\ now < WelcomeMaxTime
  /\ now' = now + 1
  /\ wEvent' = Event("tick")
  /\ UNCHANGED <<wMounted, wInput, wResponse, wIsLoading, wError, wRemaining, wPc, wHttp, wDone>>
  /\ UNCHANGED <<rets, srvVars, cliVars, epVars, cacheVars, retryVars, proxyVars,
                 validateVars, hookVars>>

NextWelcome ==
  \/ WelcomeMount
  \/ \E text \in Inputs : WelcomeType(text)
  \/ WelcomeSubmit
  \/ WelcomeFetchSettles
  \/ WelcomeJsonSettles
  \/ WelcomeReset
  \/ WelcomeTick

SpecWelcome == Init /\ [][NextWelcome]_vars

\* ------------------------------------------------------------------------
\* useApi hook: fetchData calls of one mounted hook.  Each call owns the
\* AbortController it created (numbered like the call); the hook keeps one
\* of them in abortControllerRef.  A call runs from one await to the next.

Calls == 1 .. NumCalls

\* The options the hook is mounted with.
HookOptions ==
  [enabled : BOOLEAN, method : {"GET", "POST"}, cache : BOOLEAN, retries : 1 .. MaxHookRetries]

HookEndpoint == "users"

\* generateCacheKey(endpoint, params) with params undefined
GenerateCacheKey(endpoint) == endpoint \o ":"

\* cache && method === 'GET'
HookCaches(opts) == opts.cache /\ opts.method = "GET"

NoCall == [pc |-> "free", attempt |-> 0, signal |-> 0, staleFetch |-> FALSE, staleWrite |-> FALSE]

\* The call is not the latest one: a later fetchData call has been made.
Superseded(c) == c < hStarted

\* What `await requestFn()` settles with: fetch with an aborted signal
\* rejects with an AbortError; otherwise the proxy answers.
HookFetchOutcomes(aborted) ==
  IF aborted THEN {AbortError}
  ELSE {Returned("payload"), ThrownError("Error", "HTTP error! status: 500")}

\* The hook is rendered for the first time.
HookMount(opts) ==
  /\ hMounted = "no"
  /\ hMounted' = "yes"
  /\ hOpts' = opts
  /\ hEvent' = "mount"
  /\ UNCHANGED <<hData, hLoading, hError, hRef, hAborted, hStarted, hCalls>>
  /\ UNCHANGED <<now, rets, srvVars, cliVars, epVars, cacheVars, retryVars, proxyVars,
                 validateVars, welcomeVars>>

\* fetchData(), from the mount effect or as refetch, up to its first await:
\* abort the controller in the ref, create a new one, look into the cache,
\* invoke requestFn for the first time.  On a cache hit the call ends here
\* (with its finally block).
HookFetchData ==
  LET c == hStarted + 1
      g == ApiCacheGet(cache, now, GenerateCacheKey(HookEndpoint))
      hit == HookCaches(hOpts) /\ g.data # JsNull IN
  /\ hMounted = "yes"
  /\ hStarted < NumCalls
  /\ IF ~hOpts.enabled
     THEN /\ hEvent' = "skipped"
          /\ UNCHANGED <<hData, hLoading, hError, hRef, hAborted, hStarted, hCalls, cache>>
     ELSE /\ hEvent' = "fetchData"
          /\ hAborted' = IF hRef # 0 THEN hAborted \cup {hRef} ELSE hAborted
          /\ hStarted' = c
          /\ hError' = [text |-> JsNull, by |-> c]
          /\ cache' = IF HookCaches(hOpts) THEN g.cache ELSE cache
          /\ hData' = IF hit THEN [value |-> g.data, by |-> c] ELSE hData
          /\ hLoading' = ~hit
          /\ hRef' = IF hit THEN 0 ELSE c
          /\ hCalls' = [hCalls EXCEPT ![c] =
                          IF hit THEN [NoCall EXCEPT !.pc = "done"]
                          ELSE [NoCall EXCEPT !.pc = "fetch", !.attempt = 1, !.signal = c]]
  /\ UNCHANGED <<hMounted, hOpts>>
  /\ UNCHANGED <<now, rets, srvVars, cliVars, epVars, cacheRet, lastSet, retryVars, proxyVars,
                 validateVars, welcomeVars>>

\* `await requestFn()` of call c settles inside retryRequest: the result is
\* cached and shown; or the error is rethrown after the last attempt and
\* caught by fetchData; or the backoff wait begins.  Where fetchData ends,
\* its finally block runs.
HookSettle(c) ==
  LET call == hCalls[c]
      aborted == call.signal # 0 /\ call.signal \in hAborted IN
  /\ call.pc = "fetch"
  /\ \E out \in HookFetchOutcomes(aborted) :
       IF out.kind = "value"
       THEN /\ cache' = IF HookCaches(hOpts)
                        THEN ApiCacheSet(cache, now, GenerateCacheKey(HookEndpoint),
                                         out.text, HookCacheTTL)
                        ELSE cache
            /\ hData' = [value |-> out.text, by |-> c]
            /\ hLoading' = FALSE
            /\ hRef' = 0
            /\ hCalls' = [hCalls EXCEPT ![c] =
                            [call EXCEPT !.pc = "done", !.staleWrite = Superseded(c)]]
            /\ UNCHANGED hError
       ELSE IF RetryLastAttempt(call.attempt, hOpts.retries)
       THEN LET err == CaughtError(out)
                silent == err.isError /\ err.name = "AbortError" IN
            /\ hError' = IF silent THEN hError ELSE [text |-> err.text, by |-> c]
            /\ hLoading' = FALSE
            /\ hRef' = 0
            /\ hCalls' = [hCalls EXCEPT ![c] =
                            [call EXCEPT !.pc = "done", !.staleWrite = Superseded(c) /\ ~silent]]
            /\ UNCHANGED <<hData, cache>>
       ELSE /\ hCalls' = [hCalls EXCEPT ![c] = [call EXCEPT !.pc = "wait"]]
            /\ UNCHANGED <<hData, hLoading, hError, hRef, cache>>
  /\ hEvent' = "settle"
  /\ UNCHANGED <<hMounted, hOpts, hAborted, hStarted>>
  /\ UNCHANGED <<now, rets, srvVars, cliVars, epVars, cacheRet, lastSet, retryVars, proxyVars,
                 validateVars, welcomeVars>>

\* The backoff timer of call c fires: the next attempt.  requestFn reads the
\* signal from abortControllerRef.current as it is now.
HookWake(c) ==
  LET call == hCalls[c] IN
  /\ call.pc = "wait"
  /\ hCalls' = [hCalls EXCEPT ![c] =
                  [call EXCEPT !.pc = "fetch", !.attempt = @ + 1, !.signal = hRef,
                               !.staleFetch = @ \/ (Superseded(c) /\ hRef \notin hAborted)]]
  /\ hEvent' = "wake"
  /\ UNCHANGED <<hMounted, hOpts, hData, hLoading, hError, hRef, hAborted, hStarted>>
  /\ UNCHANGED <<now, rets, srvVars, cliVars, epVars, cacheVars, retryVars, proxyVars,
                 validateVars, welcomeVars>>

\* mutate(newData)
HookMutate ==
  /\ hMounted = "yes"
  /\ hData' = [value |-> "edited", by |-> 0]
  /\ cache' = IF HookCaches(hOpts)
              THEN ApiCacheSet(cache, now, GenerateCacheKey(HookEndpoint), "edited", HookCacheTTL)
              ELSE cache
  /\ hEvent' = "mutate"
  /\ UNCHANGED <<hMounted, hOpts, hLoading, hError, hRef, hAborted, hStarted, hCalls>>
  /\ UNCHANGED <<now, rets, srvVars, cliVars, epVars, cacheRet, lastSet, retryVars, proxyVars,
                 validateVars, welcomeVars>>

\* The cleanup of the unmount effect.
HookUnmount ==
  /\ hMounted = "yes"
  /\ hMounted' = "gone"
  /\ hAborted' = IF hRef # 0 THEN hAborted \cup {hRef} ELSE hAborted
  /\ hEvent' = "unmount"
  /\ UNCHANGED <<hOpts, hData, hLoading, hError, hRef, hStarted, hCalls>>
  /\ UNCHANGED <<now, rets, srvVars, cliVars, epVars, cacheVars, retryVars, proxyVars,
                 validateVars, welcomeVars>>

NextUseApi ==
  \/ \E opts \in HookOptions : HookMount(opts)
  \/ HookFetchData
  \/ \E c \in Calls : HookSettle(c)
  \/ \E c \in Calls : HookWake(c)
  \/ HookMutate
  \/ HookUnmount

SpecUseApi == Init /\ [][NextUseApi]_vars

\* ------------------------------------------------------------------------
\* Properties

\* A window as the specification defines it: live while now < resetTime,
\* elapsed from now = resetTime on.
WindowLive(st, t, ip) == ip \in DOMAIN st /\ t < st[ip].resetTime
WindowElapsed(st, t, ip) == ip \in DOMAIN st /\ t >= st[ip].resetTime

\* C1: from no stored state, the first MAX_REQUESTS checkLimit calls inside
\* one window are allowed and the (MAX_REQUESTS+1)th inside it is denied,
\* for the server limiter (per key) and for the client limiter.
C1_QuotaPerWindow ==
  /\ (ret.op = "checkLimit" /\ ret.at < sFirst[ret.key] + STORAGE_WINDOW_MS) =>
        /\ (sCalls[ret.key] <= MAX_REQUESTS => ret.allowed)
        /\ (sCalls[ret.key] = MAX_REQUESTS + 1 => ~ret.allowed)
  /\ (cRet.op = "checkLimit" /\ cRet.at < cFirst + STORAGE_WINDOW_MS) =>
        /\ (cCalls <= MAX_REQUESTS => cRet.allowed)
        /\ (cCalls = MAX_REQUESTS + 1 => ~cRet.allowed)

C1_Witness ==
  /\ ret.op = "checkLimit" /\ ret.at < sFirst[ret.key] + STORAGE_WINDOW_MS
  /\ sCalls[ret.key] = MAX_REQUESTS + 1 /\ ~ret.allowed
  /\ cRet.op = "checkLimit" /\ cRet.at < cFirst + STORAGE_WINDOW_MS
  /\ cCalls = MAX_REQUESTS + 1 /\ ~cRet.allowed
  /\ ret.at > sFirst[ret.key]

\* C2: every stored server entry whose window is live (now < resetTime) has
\* 0 <= count <= MAX_REQUESTS.
C2_LiveCountBounded ==
  \A ip \in DOMAIN store :
    now < store[ip].resetTime =>
      store[ip].count >= 0 /\ store[ip].count <= MAX_REQUESTS

C2_Witness ==
  /\ ret.op = "checkLimit" /\ ~ret.allowed
  /\ WindowLive(store, now, ret.key)
  /\ store[ret.key].count = MAX_REQUESTS

\* C3: a checkLimit call on an exhausted key made at any now >= resetTime
\* (now = resetTime included) is allowed and replaces the entry by
\* {count: 1, resetTime: now + STORAGE_WINDOW_MS}.
C3_ExhaustedKeyAllowedFromResetTime ==
  [][\A ip \in IPs :
       (/\ DoServerCheckLimit(ip)
        /\ ip \in DOMAIN store
        /\ store[ip].count = MAX_REQUESTS
        /\ now >= store[ip].resetTime)
       => /\ ret'.allowed
          /\ store'[ip] = [count |-> 1, resetTime |-> now + STORAGE_WINDOW_MS]]_vars

\* C4: a checkLimit call that returns deny leaves the stored state as it
\* was: the whole server map, respectively the persisted timestamp array.
C4_DenyLeavesStateUnchanged ==
  [][/\ (ret'.op = "checkLimit" /\ ~ret'.allowed) => store' = store
     /\ (cRet'.op = "checkLimit" /\ ~cRet'.allowed) => storage' = storage]_vars

C4_Witness ==
  /\ ret.op = "checkLimit" /\ ~ret.allowed
  /\ cRet.op = "checkLimit" /\ ~cRet.allowed
  /\ Cardinality(DOMAIN store) = 2
  /\ Len(storage.items) = MAX_REQUESTS

\* C5: getRemaining(key) returns max(0, MAX_REQUESTS - count) when the key
\* has an entry whose window is live, and MAX_REQUESTS when the key has no
\* entry or its window has expired.
C5_GetRemainingValue ==
  ret.op = "getRemaining" =>
    IF WindowLive(store, now, ret.key)
    THEN ret.num = Max(0, MAX_REQUESTS - store[ret.key].count)
    ELSE ret.num = MAX_REQUESTS

\* C6: within one window getRemaining never increases from one observation
\* to the next, and the first observation after the window has expired
\* returns MAX_REQUESTS.
C6_RemainingMonotoneThenReset ==
  [][\A ip \in IPs :
       /\ (/\ WindowLive(store, now, ip)
           /\ WindowLive(store', now', ip)
           /\ store'[ip].resetTime = store[ip].resetTime)
          => ServerGetRemaining(store', now', ip) <= ServerGetRemaining(store, now, ip)
       /\ WindowElapsed(store', now', ip)
          => ServerGetRemaining(store', now', ip) = MAX_REQUESTS]_vars

\* C7: fed the same request times of one identity from empty state, the
\* client limiter and the server limiter return the same allow/deny at every
\* check and the same remaining quota at every time.
C7_SamePolicy ==
  /\ (ret.op = "checkLimit" /\ cRet.op = "checkLimit") => ret.allowed = cRet.allowed
  /\ (ret.op = "getRemaining" /\ cRet.op = "getRemaining") => ret.num = cRet.num

\* C8: sweeps change the result of no checkLimit or getRemaining call, and
\* a sweep deletes exactly the entries whose window has elapsed, leaving
\* every other entry unchanged.
C8_SweepNeutralAndExact ==
  [][/\ ret'.op \in {"checkLimit", "getRemaining"} => ret' = shadowRet'
     /\ DoServerCleanup =>
          store' = MapDeleteAll(store, {ip \in DOMAIN store : now >= store[ip].resetTime})]_vars

\* C9: with requests interleaved at their awaits, no update of a key's
\* counter is lost and checkLimit admits at most MAX_REQUESTS requests of one
\* key into one window.
C9_AtomicCheckThenIncrement ==
  \A ip \in IPs :
    /\ admitted[ip].n <= MAX_REQUESTS
    /\ (ip \in DOMAIN store /\ store[ip].resetTime = admitted[ip].window)
         => store[ip].count = admitted[ip].n

C9_Witness ==
  /\ resp.status = 429
  /\ admitted[resp.key].n = MAX_REQUESTS
  /\ Cardinality({p \in Reqs : pc[p] # "idle" /\ reqIp[p] = resp.key}) = MAX_REQUESTS

\* C10 as stated: after set(k, v, ttl) at time t and no later set of k,
\* get(k) returns v if and only if now - t <= ttl, and a get with
\* now - t > ttl returns absent and removes the entry.
C10_GetIffFresh ==
  (cacheRet.op = "get" /\ lastSet[cacheRet.key].has) =>
    LET k == cacheRet.key
        s == lastSet[k] IN
    /\ cacheRet.data = s.data <=> now - s.at <= s.ttl
    /\ now - s.at > s.ttl => cacheRet.data = JsNull /\ k \notin DOMAIN cache

\* C10 amended: after set(k, v, ttl) at time t and no later set, delete or
\* clear of k, get(k) returns the stored v while now - t <= ttl and leaves
\* the entry in place; with now - t > ttl it returns absent (null) and
\* removes the entry; for v other than null, get(k) returns v if and only
\* if now - t <= ttl.
C10_GetFreshOrEvict ==
  (cacheRet.op = "get" /\ lastSet[cacheRet.key].has /\ ~lastSet[cacheRet.key].removed) =>
    LET k == cacheRet.key
        s == lastSet[k] IN
    /\ IF now - s.at <= s.ttl
       THEN cacheRet.data = s.data /\ k \in DOMAIN cache /\ cache[k].data = s.data
       ELSE cacheRet.data = JsNull /\ k \notin DOMAIN cache
    /\ s.data # JsNull => (cacheRet.data = s.data <=> now - s.at <= s.ttl)

C10_Witness ==
  /\ cacheRet.op = "get"
  /\ lastSet[cacheRet.key].has /\ ~lastSet[cacheRet.key].removed
  /\ lastSet[cacheRet.key].data # JsNull
  /\ now - lastSet[cacheRet.key].at > lastSet[cacheRet.key].ttl
  /\ cacheRet.data = JsNull
  /\ cacheRet.key \notin DOMAIN cache

\* ------------------------------------------------------------------------
\* retryRequest

\* The call is over.
RetryDone == rPc \in {"returned", "threw"}

\* Every invocation of the operation failed.
FullyFailing == RetryDone /\ \A i \in 1..Len(rLog) : rLog[i].out.kind = "thrown"

\* C11: an operation that fails on its first n-1 invocations and succeeds on
\* the nth, with maxRetries >= n, makes retryRequest return that success
\* value after exactly n invocations, and none follows the success.
C11_SuccessOnNth ==
  /\ (RetryDone /\ ~rSignal /\ 1 <= rPlan /\ rPlan <= rMax) =>
        /\ rPc = "returned"
        /\ Len(rLog) = rPlan
        /\ rOut = rLog[rPlan].out
        /\ rOut.kind = "value"
  /\ \A n \in 1..Len(rLog) : rLog[n].out.kind = "value" => rPc = "returned" /\ Len(rLog) = n

C11_Witness ==
  /\ rPc = "returned" /\ rPlan = 3 /\ Len(rLog) = 3
  /\ rLog[1].out.kind = "thrown" /\ rLog[2].out.kind = "thrown"

\* C12: an operation that fails on each invocation is invoked exactly
\* maxRetries times, then retryRequest fails with the very value the last
\* invocation threw, whatever its kind, and no wait follows the last failure.
C12_ThrowsLastFailureAsIs ==
  FullyFailing =>
     /\ rPc = "threw"
     /\ Len(rLog) = rMax
     /\ Len(rLog) >= 1 => rOut = rLog[Len(rLog)].out
     /\ Len(rWaits) = Max(0, rMax - 1)

\* C13: the wait after the k-th failed attempt (k < maxRetries) is
\* delay * 2^(k-1), a fully failing call waits exactly maxRetries - 1 times,
\* and attempt k+1 does not start before the k-th wait is over.
C13_ExponentialBackoff ==
  /\ \A k \in 1..Len(rWaits) :
        /\ k < rMax
        /\ rWaits[k].length = rDelay * 2 ^ (k - 1)
        /\ rLog[k].out.kind = "thrown"
        /\ k + 1 <= Len(rLog) => rLog[k + 1].start >= rWaits[k].from + rDelay * 2 ^ (k - 1)
  /\ \A k \in 1..Len(rLog) :
        (rLog[k].out.kind = "thrown" /\ k < rMax) => Len(rWaits) >= k
  /\ (FullyFailing /\ rMax >= 1) => Len(rWaits) = rMax - 1

C13_Witness ==
  /\ rPc = "threw" /\ rMax = 3 /\ rDelay = 2
  /\ Len(rWaits) = 2 /\ rWaits[2].length = 4

\* C14: a failure caused by a transport abort is retried like any other
\* failure until the attempts are exhausted, but once the caller's signal
\* is cancelled retryRequest starts no further attempt.
C14_NoAttemptAfterCallerAbort ==
  [][/\ Len(rLog') > Len(rLog) => ~rSignal
     /\ (rPc = "calling" /\ rPc' \in {"waiting", "threw"} /\ ~rSignal /\ rLastError' = AbortError) =>
           (rPc' = "threw" <=> rAttempt = rMax)]_vars

\* ------------------------------------------------------------------------
\* Proxy route

\* A cache entry as the specification defines validity: valid while its age
\* now - timestamp is at most its ttl.
EntryValid(c, t, key) == key \in DOMAIN c /\ t - c[key].timestamp <= c[key].ttl

\* The responses the handler sent in this step / a successful one.
Answered(r) == r.kind = "response"
Successful(r) == Answered(r) /\ ResponseOk(r.status)

\* C15: a GET to a configured target with caching enabled is answered with
\* the stored payload, without an upstream call, exactly when the entry for
\* its target and query string is valid (age <= ttl); otherwise it is
\* forwarded exactly once and the response stored iff upstream reported
\* success, so that a failed upstream response is never served from the cache.
C15_GetServedFromCacheIffValid ==
  [][/\ \A q \in pxFlight' \ pxFlight :
          (q.method = "GET" /\ enableCache) =>
              ~EntryValid(responseCache, now, ProxyCacheKey(q.path, q.search))
     /\ (Answered(pxResp') /\ pxResp'.source = "cache") =>
          LET key == ProxyCacheKey(pxResp'.path, pxResp'.search) IN
          /\ EntryValid(responseCache, now, key)
          /\ pxResp'.body = NextResponseJson(responseCache[key].data)
          /\ pxResp'.body # "failure"
          /\ pxResp'.calls = 0
     /\ \A q \in pxFlight \ pxFlight' :
          (q.method = "GET" /\ enableCache) =>
              LET key == ProxyCacheKey(q.path, q.search) IN
              /\ q.calls = 1
              /\ IF pxResp'.source = "upstream" /\ ResponseOk(pxResp'.status)
                 THEN /\ key \in DOMAIN responseCache'
                      /\ responseCache'[key].timestamp = now
                      /\ NextResponseJson(responseCache'[key].data) = pxResp'.body
                 ELSE responseCache' = responseCache]_vars

C17_FailureResponses ==
  [][/\ (Answered(pxResp') /\ ~Configured(pxResp'.path)) =>
          /\ pxResp'.status = 404
          /\ pxResp'.calls = 0
          /\ ~pxResp'.consulted
          /\ responseCache' = responseCache
          /\ pxFlight' = pxFlight
     /\ (Answered(pxResp') /\ pxResp'.cause = "AbortError") => pxResp'.status = 408
     /\ (Answered(pxResp') /\ pxResp'.cause \notin {"", "AbortError"}) => pxResp'.status = 500
     /\ pxResp'.calls <= 1
     /\ \A q \in pxFlight' : q.calls <= 1]_vars

C17_Witness ==
  /\ Answered(pxResp) /\ pxResp.cause = "AbortError" /\ pxResp.status = 408
  /\ pxResp.calls = 1

\* C18: every successful response, from the cache or from upstream, carries
\* the same cache-status header, valued HIT for a cache hit and MISS for a
\* forwarded GET, and the content type upstream declared for its payload.
C18_SameMarkerAndContentType ==
  [][Successful(pxResp') =>
        /\ pxResp'.source = "cache" => pxResp'.marker.value = "HIT"
        /\ (pxResp'.source = "upstream" /\ pxResp'.method = "GET") => pxResp'.marker.value = "MISS"
        /\ pxResp'.declared # "none" => pxResp'.ctype = pxResp'.declared
        /\ Successful(pxResp) => pxResp'.marker.name = pxResp.marker.name]_vars

\* ------------------------------------------------------------------------
\* Question endpoint gates

\* The gates in the order the endpoint is to run them.
GateOrder == <<"rateLimit", "validation", "credential", "moderation", "completion">>

IsPrefix(a, b) == Len(a) <= Len(b) /\ \A i \in 1..Len(a) : a[i] = b[i]

Passed(trail, g) == \E i \in 1..Len(trail.gates) : trail.gates[i] = g

\* No moderation and no completion call was made for the request.
NoUpstreamCall(trail) == ~Passed(trail, "moderation") /\ ~Passed(trail, "completion")

Responded == resp # NoResp

\* C19: the gates run in the order rate limit, validation, credential,
\* moderation, completion, and the first that fails ends the request: a
\* rate-limited request is neither validated nor sent upstream, an invalid
\* or credential-less one causes no moderation or completion call, a flagged
\* one no completion call.
C19_GatesInOrder ==
  /\ \A p \in Reqs :
        /\ IsPrefix(reqTrail[p].gates, GateOrder)
        /\ pc[p] \in {"moderation", "completion"} =>
              reqTrail[p].input = "valid" /\ reqTrail[p].credential = "present"
        /\ pc[p] = "completion" => ~reqTrail[p].flagged
  /\ Responded =>
        /\ IsPrefix(resp.trail.gates, GateOrder)
        /\ resp.status = 429 => resp.trail.gates = <<"rateLimit">> /\ resp.trail.input = "unread"
        /\ resp.trail.input = "invalid" =>
              resp.trail.gates = <<"rateLimit", "validation">> /\ NoUpstreamCall(resp.trail)
        /\ resp.trail.credential = "absent" =>
              resp.trail.gates = <<"rateLimit", "validation", "credential">> /\ NoUpstreamCall(resp.trail)
        /\ resp.trail.flagged => ~Passed(resp.trail, "completion")
        /\ resp.status = 200 => resp.trail.gates = GateOrder

C19_Witness ==
  /\ Responded /\ resp.trail.flagged /\ resp.status = 400
  /\ \E p \in Reqs : pc[p] = "completion"

\* C20 (as stated): a request whose text is empty or whitespace only is
\* answered 4xx with the 'Please enter some text' validation message and
\* makes no moderation or completion call.
C20_EmptyTextRejected ==
  (Responded /\ resp.trail.empty) =>
     /\ 400 <= resp.status /\ resp.status <= 499
     /\ resp.error = "Please enter some text to translate"
     /\ NoUpstreamCall(resp.trail)

\* C20 (amended): a request whose text is empty or whitespace only is
\* answered 400 with the 'Please enter some text to translate' message if
\* the rate limiter admits it and 429 if not, and in both cases makes no
\* moderation or completion call.
C20_EmptyTextRejectedIfAdmitted ==
  (Responded /\ resp.trail.empty) =>
     /\ IF resp.trail.gates = <<"rateLimit">>
        THEN resp.status = 429 /\ resp.error = "Rate limit exceeded. Please try again later."
        ELSE resp.status = 400 /\ resp.error = "Please enter some text to translate"
     /\ NoUpstreamCall(resp.trail)

C20_Witness ==
  /\ Responded /\ resp.trail.empty /\ resp.status = 400
  /\ resp.trail.gates = <<"rateLimit", "validation">>

\* ------------------------------------------------------------------------
\* Question endpoint: responses

\* The response is one of the six of the taxonomy, for the reason the
\* taxonomy gives.
Taxonomy(r) ==
  \/ /\ r.status = 200 /\ r.error = ""
     /\ Passed(r.trail, "completion") /\ r.trail.failure = Undefined
  \/ /\ r.status = 429 /\ r.error = "Rate limit exceeded. Please try again later."
     /\ r.trail.gates = <<"rateLimit">> /\ r.trail.failure = Undefined
  \/ /\ r.status = 400 /\ r.trail.input = "invalid"
     /\ r.error \in {ValidateText(t).error : t \in {x \in Texts : ~ValidateText(x).isValid}}
  \/ /\ r.status = 400 /\ r.trail.flagged
     /\ r.trail.categories # <<>>
     /\ r.error = "Content flagged as inappropriate: " \o JoinComma(r.trail.categories)
  \/ /\ r.status = 500 /\ r.trail.credential = "absent"
     /\ r.error = "Translation service temporarily unavailable"
     /\ r.trail.failure = Undefined
  \/ /\ r.status = 500 /\ r.trail.failure.kind = "thrown"
     /\ r.trail.failure.isError => r.error = r.trail.failure.text
     /\ ~r.trail.failure.isError => r.error = "OpenAI failed"

\* C21: every response of the question endpoint is one of the taxonomy: 200
\* on success, 429 when the rate limit is exceeded, 400 with the validator's
\* message on invalid input, 400 naming the flagged categories on moderation
\* rejection, 500 with a generic message when the credential is absent, and
\* 500 with the failure's message for any failure thrown inside the handler
\* (no failure leaves the handler other than as that response).
C21_ResponseTaxonomy ==
  Responded =>
    /\ Taxonomy(resp)
    /\ resp.trail.failure.kind = "thrown" => resp.status = 500
    /\ resp.trail.credential = "absent" => resp.status = 500
    /\ resp.trail.input = "invalid" \/ resp.trail.flagged => resp.status = 400
    /\ resp.trail.gates = <<"rateLimit">> /\ resp.trail.failure = Undefined => resp.status = 429

C21_Witness ==
  /\ Responded /\ resp.status = 500
  /\ resp.trail.failure = ThrownError("Error", "Responses API error: failed")
  /\ resp.error = "Responses API error: failed"

\* The state is the one a successful response has just been returned in:
\* ret holds the getRemaining call the response was built with.
JustSucceeded ==
  /\ resp.status = 200
  /\ ret.op = "getRemaining" /\ ret.key = resp.key /\ ret.at = now

\* C22 as stated: in every successful response remainingRequests is
\* MAX_REQUESTS minus the number of the caller's requests admitted in the
\* window the request was counted in, hence at most MAX_REQUESTS - 1, also
\* when the clock advances during the upstream calls.
C22_RemainingOfCountingWindow ==
  JustSucceeded =>
    /\ resp.remaining = MAX_REQUESTS - admitted[resp.key].n
    /\ resp.remaining <= MAX_REQUESTS - 1

\* C22, amended: remainingRequests is getRemaining(ip) at the time the
\* response is built.  While the caller's window is live it is MAX_REQUESTS
\* minus the number of the caller's requests admitted in that window so far
\* (concurrent ones included), hence at most MAX_REQUESTS - 1; once the
\* caller has no entry or the clock is past the entry's reset time it is the
\* full quota MAX_REQUESTS.
C22_RemainingAtResponseTime ==
  JustSucceeded =>
    /\ resp.remaining = ret.num
    /\ resp.remaining \in 0 .. MAX_REQUESTS
    /\ WindowLive(store, now, resp.key) =>
         /\ store[resp.key].resetTime = admitted[resp.key].window
         /\ resp.remaining = MAX_REQUESTS - admitted[resp.key].n
         /\ resp.remaining <= MAX_REQUESTS - 1
    /\ (resp.key \notin DOMAIN store \/ now > store[resp.key].resetTime) =>
         resp.remaining = MAX_REQUESTS

\* A success whose window ended during the upstream calls reports the full
\* quota.
C22_Witness ==
  /\ JustSucceeded
  /\ resp.key \in DOMAIN store /\ now > store[resp.key].resetTime
  /\ admitted[resp.key].window = store[resp.key].resetTime
  /\ resp.remaining = MAX_REQUESTS

\* ------------------------------------------------------------------------
\* validateText

\* C23: validateText checks its rules in a fixed order and the first rule
\* that matches decides: empty or whitespace-only text gives the enter-text
\* error; else a length over max_text_length gives the length error naming
\* the limit; else a script, javascript:, vbscript:, event-handler or
\* data:text/html match gives the malicious-content error; else a keyword,
\* URL or email match gives the prohibited-patterns error; otherwise the
\* text is valid.  A repeated call with the same arguments gives the same
\* answer as the first.
C23_FirstRuleDecides ==
  vRepeat >= 1 =>
    /\ vRet = (IF vText.len = 0 \/ vText.blank
               THEN [isValid |-> FALSE, error |-> "Please enter some text to translate"]
               ELSE IF vText.len > vMax
               THEN [isValid |-> FALSE,
                     error |-> "Text too long. Maximum " \o ToString(vMax) \o " characters allowed."]
               ELSE IF vText.hits \cap {"script", "javascript", "vbscript", "handler", "dataHtml"} # {}
               THEN [isValid |-> FALSE, error |-> "Potentially malicious content detected"]
               ELSE IF vText.hits \cap {"keyword", "url", "email"} # {}
               THEN [isValid |-> FALSE, error |-> "Content contains prohibited patterns"]
               ELSE [isValid |-> TRUE, error |-> ""])
    /\ vRet = vFirst

\* A text with an event handler and a denylist keyword, validated twice.
C23_Witness ==
  /\ vRepeat = 2
  /\ vText.hits = {"handler", "keyword"} /\ vText.len <= vMax
  /\ vRet.error = "Potentially malicious content detected"

\* ------------------------------------------------------------------------
\* Welcome component

\* The state is the one a click on Ask Question has just led to.
Submitted == wEvent.op = "submit"

\* C24: a submit issues the HTTP call only after the input check and then
\* the client limiter check have both passed: a submit with empty or
\* whitespace-only input shows the enter-text error, consumes no client
\* quota and issues no HTTP call; a submit the limiter denies shows the
\* rate-limit error and issues no HTTP call.
C24_CallOnlyAfterBothChecks ==
  Submitted =>
    /\ Trim(wEvent.input) = "" =>
         /\ wError = "Please enter some text to translate"
         /\ storage = wEvent.before /\ wEvent.allowed = "unchecked"
         /\ wPc = "idle"
    /\ (Trim(wEvent.input) # "" /\ ~ClientCheckLimit(wEvent.before, now).allowed) =>
         /\ wError = "Rate limit exceeded. Please try again later."
         /\ wPc = "idle"
    /\ wPc = "fetch" =>
         /\ Trim(wEvent.input) # ""
         /\ ClientCheckLimit(wEvent.before, now).allowed
         /\ storage = ClientCheckLimit(wEvent.before, now).storage

\* A whitespace-only submit made while the client quota is used up.
C24_Witness ==
  /\ Submitted /\ wEvent.input = "  "
  /\ ClientGetRemainingRequests(storage, now) = 0
  /\ wError = "Please enter some text to translate" /\ wPc = "idle"

\* ------------------------------------------------------------------------
\* ServerRateLimiter: checkLimit and getRemaining

\* C25: checkLimit(key) allows if and only if getRemaining(key) evaluated
\* just before it, at the same clock value, is greater than 0; an allowed
\* check on a live window lowers getRemaining(key) by exactly 1; and a
\* getRemaining call changes no entry of the store.
C25_CheckAgreesWithRemaining ==
  [][ /\ ret'.op = "checkLimit" =>
           /\ ret'.allowed <=> ServerGetRemaining(store, now, ret'.key) > 0
           /\ (ret'.allowed /\ WindowLive(store, now, ret'.key)) =>
                ServerGetRemaining(store', now', ret'.key)
                  = ServerGetRemaining(store, now, ret'.key) - 1
      /\ ret'.op = "getRemaining" => store' = store ]_vars

\* The check that used up a live window's last request.
C25_Witness ==
  /\ ret.op = "checkLimit" /\ ret.allowed /\ ret.at = now
  /\ WindowLive(store, now, ret.key)
  /\ sCalls[ret.key] = MAX_REQUESTS
  /\ ServerGetRemaining(store, now, ret.key) = 0

\* ------------------------------------------------------------------------
\* useApi hook

\* The fetchData call is suspended at an await.
HookPending(c) == hCalls[c].pc \in {"fetch", "wait"}

\* C26: a fetchData call that a later call has superseded is cancelled for
\* good: it starts no further network attempt (retries included) and never
\* writes data or error state.
C26_SupersededCallIsCancelled ==
  \A c \in Calls : ~hCalls[c].staleFetch /\ ~hCalls[c].staleWrite

\* C27: while the latest fetchData call is pending, loading is true and
\* abortControllerRef holds the controller of that call; the completion of
\* a superseded call clears neither.
C27_LoadingAndRefFollowLatestCall ==
  (hMounted = "yes" /\ hStarted >= 1 /\ HookPending(hStarted)) =>
     hLoading /\ hRef = hStarted

\* C28: whenever no submit is in progress, the count displayed equals
\* ClientRateLimiter.getRemainingRequests() as of the end of the last submit
\* that succeeded, was denied by the client limiter, or consumed quota and
\* then failed at the API call; and the loading flag is false again after
\* every submit that was started.
C28_DisplayedCountIsCurrent ==
  wPc = "idle" =>
    /\ wDone.kind \in {"succeeded", "denied", "failed"} => wRemaining = wDone.remaining
    /\ ~wIsLoading

====
